---------------------------- MODULE Spec2Model ----------------------------
(***************************************************************************)
(* Model of the format-normalization and merge code of VancouverBikeData:  *)
(*   process_excel.py  (read_csv_data, process_recent_csv_data,            *)
(*                      process_historical_csv_data, combine_bike_data,    *)
(*                      main)                                              *)
(*   excel_reader.py   (process_bike_data, process_wide_format,            *)
(*                      process_unknown_format)                            *)
(* A pandas DataFrame is a record [isNone, cols, rows]: cols is the        *)
(* sequence of column names, rows the sequence of rows, each row a         *)
(* function from column name to cell.  None is the record NoneDF.          *)
(***************************************************************************)
EXTENDS Integers, Sequences, FiniteSets, TLC

(***************************************************************************)
(* Cells.  Every scalar a DataFrame can hold is a record [t, v, s]:        *)
(*   t = "num"  a number v            t = "str"  the text s                *)
(*   t = "nan"  NaN / None / empty    t = "ts"   a Timestamp, v = yyyymmdd *)
(*   t = "nat"  NaT                                                        *)
(***************************************************************************)
Num(n) == [t |-> "num", v |-> n, s |-> ""]
Str(x) == [t |-> "str", v |-> 0, s |-> x]
TS(d)  == [t |-> "ts",  v |-> d, s |-> ""]
NaN    == [t |-> "nan", v |-> 0, s |-> ""]
NaT    == [t |-> "nat", v |-> 0, s |-> ""]

\* pd.isna / pd.notna
isna(c)  == c.t \in {"nan", "nat"}
notna(c) == ~isna(c)

NoneDF == [isNone |-> TRUE, cols |-> <<>>, rows |-> <<>>]
DF(cols, rows) == [isNone |-> FALSE, cols |-> cols, rows |-> rows]

Range(f) == {f[i] : i \in DOMAIN f}
HasCol(df, c) == c \in Range(df.cols)

(***************************************************************************)
(* Text the code inspects.  TLC strings are atomic, so the three text      *)
(* operations of the code are given as tables over the texts of the model: *)
(* the keywords contained in a lower-cased column name, the date a cell    *)
(* text parses to, and the number float() reads from a text.               *)
(***************************************************************************)
\* `kw in col.lower()` for every keyword the code tests
KeywordsIn(col) ==
  CASE col = "Location"       -> {"location"}
    [] col = "Route"          -> {"route"}
    [] col = "Direction"      -> {"direct"}
    [] col = "date"           -> {"date"}
    [] col = "Date"           -> {"date"}
    [] col = "Timestamp"      -> {"time"}
    [] col = "Volume"         -> {"volume"}
    [] col = "Count"          -> {"count"}
    [] col = "Year"           -> {"year"}
    [] col = "Month"          -> {"month"}
    [] col = "Burrard Bridge" -> {"bridge", "burrard"}
    [] col = "Hornby Street"  -> {"street", "hornby"}
    [] col = "Bridge Month"   -> {"bridge", "month"}
    [] OTHER                  -> {}

\* pd.to_datetime(text, errors='coerce') on the date texts of the model
ParsedDate(s) ==
  CASE s = "2020-01-15" -> 20200115
    [] s = "2020-02-15" -> 20200215
    [] s = "2022-1-15"  -> 20220115
    [] s = "2022-2-15"  -> 20220215
    [] s = "2022-01-15" -> 20220115
    [] s = "2022-12-15" -> 20221215
    [] s = "2023-05-10" -> 20230510
    [] OTHER            -> 0

to_datetime(c) ==
  IF c.t = "ts" THEN c
  ELSE IF c.t = "str" /\ ParsedDate(c.s) # 0 THEN TS(ParsedDate(c.s))
  \* a number is read as nanoseconds since the epoch
  ELSE IF c.t = "num" THEN TS(19700101)
  ELSE NaT

\* float(text): the texts of the model that float() accepts
FloatText(s) ==
  CASE s = "12"   -> Num(12)
    [] s = "1250" -> Num(1250)
    [] OTHER      -> NaN

float_ok(c) == c.t = "num" \/ (c.t = "str" /\ FloatText(c.s) # NaN)
float_of(c) == IF c.t = "num" THEN c ELSE FloatText(c.s)

MonthAbbr == <<"Jan", "Feb", "Mar", "Apr", "May", "Jun",
               "Jul", "Aug", "Sep", "Oct", "Nov", "Dec">>

\* Series.dt.year and Series.dt.strftime('%b'): NaN for NaT
dt_year(c)  == IF c.t = "ts" THEN Num(c.v \div 10000) ELSE NaN
dt_month(c) == IF c.t = "ts" THEN Str(MonthAbbr[(c.v \div 100) % 100]) ELSE NaN

\* the order of Route texts under sort_values (code-point order)
StrRank(s) ==
  CASE s = "Burrard Bridge" -> 1
    [] s = "Hornby Street"  -> 2
    [] s = "Lions Gate"     -> 3
    [] s = "X"              -> 4
    [] s = "Y"              -> 5
    [] OTHER                -> 0


(***************************************************************************)
(* Generic DataFrame helpers                                               *)
(***************************************************************************)
Canon == <<"Date", "Year", "Month", "Route", "Count">>

\* DataFrame.dropna(): rows holding any missing value are removed
dropna(rows) ==
  LET Complete(r) == \A c \in DOMAIN r : notna(r[c])
  IN  SelectSeq(rows, Complete)

\* DataFrame.dropna(subset=['Date'])
dropna_Date(rows) ==
  LET HasDate(r) == notna(r["Date"])
  IN  SelectSeq(rows, HasDate)

\* df[name] = values: add or overwrite one column, values[i] the cell of row i
SetCol(df, name, values) ==
  DF(IF HasCol(df, name) THEN df.cols ELSE Append(df.cols, name),
     [i \in DOMAIN df.rows |->
        [c \in (DOMAIN df.rows[i]) \cup {name} |->
           IF c = name THEN values[i] ELSE df.rows[i][c]]])

\* df.rename(columns=mapping): mapping[col] is the new name of col
Rename(df, mapping) ==
  DF([i \in DOMAIN df.cols |-> mapping[df.cols[i]]],
     [i \in DOMAIN df.rows |->
        [c \in {mapping[x] : x \in Range(df.cols)} |->
           LET k == CHOOSE j \in DOMAIN df.cols :
                      /\ mapping[df.cols[j]] = c
                      /\ \A j2 \in DOMAIN df.cols : mapping[df.cols[j2]] = c => j2 <= j
           IN  df.rows[i][df.cols[k]]]])

\* df['Date'] = pd.to_datetime(df[src], errors='coerce')
WithDate(df, src) ==
  SetCol(df, "Date", [i \in DOMAIN df.rows |-> to_datetime(df.rows[i][src])])

\* df['Year'] = df['Date'].dt.year; df['Month'] = df['Date'].dt.strftime('%b')
WithYearMonth(df) ==
  SetCol(SetCol(df, "Year", [i \in DOMAIN df.rows |-> dt_year(df.rows[i]["Date"])]),
         "Month", [i \in DOMAIN df.rows |-> dt_month(df.rows[i]["Date"])])

(***************************************************************************)
(* process_excel.py                                                        *)
(***************************************************************************)
\* read_csv_data: pd.read_csv, None on any exception
read_csv_data(file) == IF file.readable THEN file.table ELSE NoneDF

\* the col_mapping of process_recent_csv_data
recent_col_mapping(col) ==
  LET kw == KeywordsIn(col) IN
  IF "location" \in kw \/ "route" \in kw THEN "Location"
  ELSE IF "direct" \in kw THEN "Direction"
  ELSE IF "date" \in kw \/ "time" \in kw THEN "date"
  ELSE IF "volume" \in kw \/ "count" \in kw THEN "Volume"
  ELSE col

process_recent_csv_data(df0) ==
  IF df0.isNone THEN NoneDF
  ELSE
    LET missing_columns ==
          {c \in {"Location", "Direction", "date", "Volume"} : ~HasCol(df0, c)}
        df1 == IF missing_columns # {}
               THEN Rename(df0, [c \in Range(df0.cols) |-> recent_col_mapping(c)])
               ELSE df0
    IN
    IF ~HasCol(df1, "date") THEN NoneDF
    ELSE
      LET df2 == WithYearMonth(WithDate(df1, "date"))
          kept == dropna_Date(df2.rows)
          Result(r) == [Date  |-> r["Date"], Year |-> r["Year"], Month |-> r["Month"],
                        Route |-> r["Location"], Count |-> r["Volume"]]
      IN
      IF HasCol(df2, "Location") /\ HasCol(df2, "Volume")
      THEN DF(Canon, dropna([i \in DOMAIN kept |-> Result(kept[i])]))
      ELSE NoneDF

\* lines 109-111: invalid_dates, the number the warning "Dropping ... rows
\* with invalid dates" reports (0 when the function ends before it)
recent_invalid_dates(df0) ==
  IF df0.isNone THEN 0
  ELSE
    LET missing_columns ==
          {c \in {"Location", "Direction", "date", "Volume"} : ~HasCol(df0, c)}
        df1 == IF missing_columns # {}
               THEN Rename(df0, [c \in Range(df0.cols) |-> recent_col_mapping(c)])
               ELSE df0
    IN  IF ~HasCol(df1, "date") THEN 0
        ELSE Cardinality({i \in DOMAIN df1.rows :
                            isna(to_datetime(df1.rows[i]["date"]))})

\* `pd.notna(row[route]) and row[route] != 0`
hist_cell_qualifies(c) == notna(c) /\ ~(c.t = "num" /\ c.v = 0)

process_historical_csv_data(df0) ==
  IF df0.isNone THEN NoneDF
  ELSE
    LET date_like == {i \in DOMAIN df0.cols :
                        {"date", "time"} \cap KeywordsIn(df0.cols[i]) # {}}
        date_col == IF HasCol(df0, "Date") THEN "Date"
                    ELSE IF date_like = {} THEN ""
                    ELSE df0.cols[CHOOSE i \in date_like : \A j \in date_like : i <= j]
    IN
    IF date_col = "" THEN NoneDF
    ELSE
      LET df1 == WithYearMonth(WithDate(df0, date_col))
          IsRoute(c) == c \notin {"Date", "Year", "Month"}
          route_cols == SelectSeq(df1.cols, IsRoute)
          \* float(row[route]) raises on a text that is no number: the except
          \* clause of the function then returns None for the whole table
          raises == \E i \in DOMAIN df1.rows : \E k \in DOMAIN route_cols :
                      /\ hist_cell_qualifies(df1.rows[i][route_cols[k]])
                      /\ ~float_ok(df1.rows[i][route_cols[k]])
          Obs(r, route) == [Date  |-> r["Date"], Year |-> r["Year"], Month |-> r["Month"],
                            Route |-> Str(route), Count |-> float_of(r[route])]
          RowObs(r) ==
            LET g[k \in 0..Len(route_cols)] ==
                  IF k = 0 THEN <<>>
                  ELSE IF hist_cell_qualifies(r[route_cols[k]])
                       THEN Append(g[k-1], Obs(r, route_cols[k]))
                       ELSE g[k-1]
            IN  g[Len(route_cols)]
          long_data ==
            LET f[i \in 0..Len(df1.rows)] ==
                  IF i = 0 THEN <<>> ELSE f[i-1] \o RowObs(df1.rows[i])
            IN  f[Len(df1.rows)]
      IN
      IF raises THEN NoneDF
      \* pd.DataFrame([]) has no columns at all
      ELSE IF long_data = <<>> THEN DF(<<>>, <<>>)
      ELSE DF(Canon, dropna(long_data))

\* pd.concat([a, b], ignore_index=True): union of the columns, NaN where absent
concat(a, b) ==
  LET IsNew(c) == ~HasCol(a, c)
      cols == a.cols \o SelectSeq(b.cols, IsNew)
      Pad(r) == [c \in Range(cols) |-> IF c \in DOMAIN r THEN r[c] ELSE NaN]
      rows == a.rows \o b.rows
  IN  DF(cols, [i \in DOMAIN rows |-> Pad(rows[i])])

SameKey(r1, r2) == r1["Date"] = r2["Date"] /\ r1["Route"] = r2["Route"]

\* drop_duplicates(..., keep=False): every row of a repeated key is removed
drop_duplicates_keep_false(rows) ==
  LET Alone(r) == Cardinality({j \in DOMAIN rows : SameKey(rows[j], r)}) = 1
  IN  SelectSeq(rows, Alone)

\* drop_duplicates(subset=['Date', 'Route']): keep='first' is the default
drop_duplicates(rows) ==
  LET f[i \in 0..Len(rows)] ==
        IF i = 0 THEN <<>>
        ELSE IF \E j \in 1..(i-1) : SameKey(rows[j], rows[i])
             THEN f[i-1]
             ELSE Append(f[i-1], rows[i])
  IN  f[Len(rows)]

\* the order of sort_values(['Date', 'Route'])
KeyLess(r1, r2) ==
  \/ r1["Date"].v < r2["Date"].v
  \/ /\ r1["Date"].v = r2["Date"].v
     /\ StrRank(r1["Route"].s) < StrRank(r2["Route"].s)

\* insert r into the sorted sequence s, behind the rows it does not precede
InsertSorted(s, r) ==
  LET n == Cardinality({i \in DOMAIN s : ~KeyLess(r, s[i])})
  IN  SubSeq(s, 1, n) \o <<r>> \o SubSeq(s, n+1, Len(s))

sort_values(rows) ==
  LET f[i \in 0..Len(rows)] ==
        IF i = 0 THEN <<>> ELSE InsertSorted(f[i-1], rows[i])
  IN  f[Len(rows)]

\* combine_bike_data with the concatenation order swapped
combine_recent_first(recent_data, historical_data) ==
  IF recent_data.isNone /\ historical_data.isNone THEN NoneDF
  ELSE IF recent_data.isNone THEN historical_data
  ELSE IF historical_data.isNone THEN recent_data
  ELSE IF \E c \in Range(Canon) : ~HasCol(recent_data, c) \/ ~HasCol(historical_data, c)
       THEN NoneDF
  ELSE LET combined == concat(recent_data, historical_data)
       IN  DF(combined.cols, sort_values(drop_duplicates(combined.rows)))

\* combine_bike_data without the drop_duplicates call
combine_no_dedup(recent_data, historical_data) ==
  IF recent_data.isNone /\ historical_data.isNone THEN NoneDF
  ELSE IF recent_data.isNone THEN historical_data
  ELSE IF historical_data.isNone THEN recent_data
  ELSE IF \E c \in Range(Canon) : ~HasCol(recent_data, c) \/ ~HasCol(historical_data, c)
       THEN NoneDF
  ELSE LET combined == concat(historical_data, recent_data)
       IN  DF(combined.cols, sort_values(combined.rows))

\* combine_bike_data without the sort_values call
combine_no_sort(recent_data, historical_data) ==
  IF recent_data.isNone /\ historical_data.isNone THEN NoneDF
  ELSE IF recent_data.isNone THEN historical_data
  ELSE IF historical_data.isNone THEN recent_data
  ELSE IF \E c \in Range(Canon) : ~HasCol(recent_data, c) \/ ~HasCol(historical_data, c)
       THEN NoneDF
  ELSE LET combined == concat(historical_data, recent_data)
       IN  DF(combined.cols, drop_duplicates(combined.rows))

\* combine_bike_data that deduplicates and sorts a single source as well
combine_normalise_single(recent_data, historical_data) ==
  LET Normal(df) == IF df.isNone \/ \E c \in {"Date", "Route"} : ~HasCol(df, c)
                    THEN df
                    ELSE DF(df.cols, sort_values(drop_duplicates(df.rows)))
  IN
  IF recent_data.isNone /\ historical_data.isNone THEN NoneDF
  ELSE IF recent_data.isNone THEN Normal(historical_data)
  ELSE IF historical_data.isNone THEN Normal(recent_data)
  ELSE IF \E c \in Range(Canon) : ~HasCol(recent_data, c) \/ ~HasCol(historical_data, c)
       THEN NoneDF
  ELSE LET combined == concat(historical_data, recent_data)
       IN  DF(combined.cols, sort_values(drop_duplicates(combined.rows)))

\* combine_bike_data with drop_duplicates(keep=False): a repeated key is
\* removed altogether
combine_keep_false(recent_data, historical_data) ==
  IF recent_data.isNone /\ historical_data.isNone THEN NoneDF
  ELSE IF recent_data.isNone THEN historical_data
  ELSE IF historical_data.isNone THEN recent_data
  ELSE IF \E c \in Range(Canon) : ~HasCol(recent_data, c) \/ ~HasCol(historical_data, c)
       THEN NoneDF
  ELSE LET combined == concat(historical_data, recent_data)
       IN  DF(combined.cols, sort_values(drop_duplicates_keep_false(combined.rows)))

combine_bike_data(recent_data, historical_data) ==
  IF recent_data.isNone /\ historical_data.isNone THEN NoneDF
  ELSE IF recent_data.isNone THEN historical_data
  ELSE IF historical_data.isNone THEN recent_data
  ELSE IF \E c \in Range(Canon) : ~HasCol(recent_data, c) \/ ~HasCol(historical_data, c)
       THEN NoneDF
  ELSE LET combined == concat(historical_data, recent_data)
       IN  DF(combined.cols, sort_values(drop_duplicates(combined.rows)))


(***************************************************************************)
(* excel_reader.py                                                         *)
(***************************************************************************)
\* the columns whose lower-cased name contains one of the words
ColsWith(cols, words) ==
  LET Hit(c) == KeywordsIn(c) \cap words # {} IN SelectSeq(cols, Hit)

\* next((col for col in cols if word in str(col).lower()), None); "" is None
FirstWith(cols, word) ==
  LET hits == ColsWith(cols, {word}) IN IF hits = <<>> THEN "" ELSE hits[1]

\* dtypes: a column of numbers is int64, of numbers and NaN float64, and a
\* column holding any text (or of a frame without rows) is object
IsIntCol(df, c) ==
  Len(df.rows) > 0 /\ \A i \in DOMAIN df.rows : df.rows[i][c].t = "num"
IsNumericCol(df, c) ==
  Len(df.rows) > 0 /\ \A i \in DOMAIN df.rows : df.rows[i][c].t \in {"num", "nan"}
IsFloatCol(df, c) == IsNumericCol(df, c) /\ ~IsIntCol(df, c)

\* str(value) of one cell of a column, as Series.astype(str) gives it
astype_str(c, float_col) ==
  CASE c.t = "num" -> IF float_col THEN ToString(c.v) \o ".0" ELSE ToString(c.v)
    [] c.t = "str" -> c.s
    [] c.t = "nan" -> "nan"
    [] c.t = "nat" -> "NaT"
    [] OTHER       -> "timestamp"

\* pd.to_numeric(text, errors='coerce'): the number, and whether it is a float
NumericText(s) ==
  CASE s = "1"    -> [c |-> Num(1),  f |-> FALSE]
    [] s = "2"    -> [c |-> Num(2),  f |-> FALSE]
    [] s = "12"   -> [c |-> Num(12), f |-> FALSE]
    [] s = "1.0"  -> [c |-> Num(1),  f |-> TRUE]
    [] s = "2.0"  -> [c |-> Num(2),  f |-> TRUE]
    [] s = "12.0" -> [c |-> Num(12), f |-> TRUE]
    [] OTHER      -> [c |-> NaN,     f |-> TRUE]

\* text.lower()[:3]
Lower3(s) ==
  CASE s \in {"Jan", "JAN", "jan", "January"}  -> "jan"
    [] s \in {"Feb", "FEB", "feb", "February"} -> "feb"
    [] s \in {"Dec", "DEC", "dec", "December"} -> "dec"
    [] OTHER -> "other"

\* month_map = {month[:3].lower(): i+1 for i, month in enumerate(calendar.month_name)}
month_map(k) ==
  CASE k = "jan" -> Num(1)
    [] k = "feb" -> Num(2)
    [] k = "dec" -> Num(12)
    [] OTHER     -> NaN

\* lines 185-204 of process_wide_format: the observations of the rows
wide_long_data(rows, route_cols) ==
  LET Obs(r, route) == [Date  |-> r["Date"], Year |-> r["Year"], Month |-> r["Month"],
                        Route |-> Str(route), Count |-> float_of(r[route])]
      Emits(c) == notna(c) /\ float_ok(c) /\ float_of(c).v > 0
      RowObs(r) ==
        LET g[k \in 0..Len(route_cols)] ==
              IF k = 0 THEN <<>>
              ELSE IF Emits(r[route_cols[k]])
                   THEN Append(g[k-1], Obs(r, route_cols[k]))
                   ELSE g[k-1]
        IN  g[Len(route_cols)]
      f[i \in 0..Len(rows)] == IF i = 0 THEN <<>> ELSE f[i-1] \o RowObs(rows[i])
  IN  f[Len(rows)]

process_wide_format(df, date_cols, route_cols) ==
  LET year_col  == FirstWith(date_cols, "year")
      month_col == FirstWith(date_cols, "month")
      date_col  == FirstWith(date_cols, "date")
      df1 ==
        IF year_col # "" /\ month_col # ""
        THEN
          LET rs == DOMAIN df.rows
              yf == IsFloatCol(df, year_col)
              mf == IsFloatCol(df, month_col)
              dY == SetCol(df, "Year",
                           [i \in rs |-> Str(astype_str(df.rows[i][year_col], yf))])
              dM == SetCol(dY, "Month",
                           [i \in rs |-> Str(astype_str(dY.rows[i][month_col], mf))])
              \* to_numeric(errors='coerce') never raises: the except branch
              \* that maps month names is not reached
              dN == SetCol(dM, "MonthNum",
                           [i \in rs |-> NumericText(dM.rows[i]["Month"].s).c])
              nf == \E i \in rs : NumericText(dM.rows[i]["Month"].s).f
          IN  SetCol(dN, "Date",
                     [i \in rs |-> to_datetime(Str(
                        dN.rows[i]["Year"].s \o "-"
                        \o astype_str(dN.rows[i]["MonthNum"], nf) \o "-15"))])
        ELSE IF date_col # ""
        THEN
          LET rs == DOMAIN df.rows
              dD == WithDate(df, date_col)
              yf == \E i \in rs : isna(dD.rows[i]["Date"])
              \* .dt.year.astype(str) and .dt.month_name().str[:3]
              dY == SetCol(dD, "Year",
                           [i \in rs |-> Str(astype_str(dt_year(dD.rows[i]["Date"]), yf))])
          IN  SetCol(dY, "Month", [i \in rs |-> dt_month(dD.rows[i]["Date"])])
        ELSE df
  IN
  IF ~HasCol(df1, "Date") THEN NoneDF
  ELSE
    LET long_data == wide_long_data(dropna_Date(df1.rows), route_cols)
    IN  IF long_data = <<>> THEN DF(<<>>, <<>>) ELSE DF(Canon, long_data)

\* the rename_map of process_unknown_format
unknown_rename(date_cols, route_cols, count_cols, col) ==
  IF col \in Range(count_cols) THEN "Count"
  ELSE IF col \in Range(route_cols) THEN "Route"
  ELSE IF col \in Range(date_cols) /\ "year" \in KeywordsIn(col) THEN "Year"
  ELSE IF col \in Range(date_cols) /\ "month" \in KeywordsIn(col) THEN "Month"
  ELSE IF col \in Range(date_cols) /\ "date" \in KeywordsIn(col) THEN "Date"
  ELSE col

\* df[cols]: the named columns only
Project(df, cols) ==
  DF(cols, [i \in DOMAIN df.rows |-> [c \in Range(cols) |-> df.rows[i][c]]])

process_unknown_format(df) ==
  LET Numeric(c) == IsNumericCol(df, c)
      numeric_cols == SelectSeq(df.cols, Numeric)
      date_cols  == ColsWith(df.cols, {"date", "month", "year"})
      route_cols == ColsWith(df.cols, {"route", "location", "path"})
      count_cols == ColsWith(numeric_cols, {"count", "volume", "trips"})
  IN
  IF date_cols # <<>> /\ route_cols # <<>> /\ count_cols # <<>>
  THEN
    \* lines 240-290: taken as a long table; no row is dropped here
    LET picked == date_cols \o route_cols \o count_cols
        result_df ==
          Rename(Project(df, picked),
                 [c \in Range(picked) |->
                    unknown_rename(date_cols, route_cols, count_cols, c)])
        rs == DOMAIN df.rows
    IN
    IF ~HasCol(result_df, "Date") /\ HasCol(result_df, "Year") /\ HasCol(result_df, "Month")
    THEN
      LET yf == IsFloatCol(result_df, "Year")
          dY == SetCol(result_df, "Year",
                       [i \in rs |-> Str(astype_str(result_df.rows[i]["Year"], yf))])
          month_object == ~IsNumericCol(result_df, "Month")
          MonthNumOf(c) ==
            IF month_object
            THEN IF c.t = "str" THEN month_map(Lower3(c.s)) ELSE NaN
            ELSE c
          dN == SetCol(dY, "MonthNum", [i \in rs |-> MonthNumOf(dY.rows[i]["Month"])])
          nf == \E i \in rs : isna(dN.rows[i]["MonthNum"])
      IN  SetCol(dN, "Date",
                 [i \in rs |-> to_datetime(Str(
                    dN.rows[i]["Year"].s \o "-"
                    \o astype_str(dN.rows[i]["MonthNum"], nf) \o "-15"))])
    ELSE result_df
  ELSE IF date_cols # <<>> /\ numeric_cols # <<>>
  THEN
    \* lines 296-320: row['temp_date'].dt raises AttributeError on the first
    \* positive cell; the except clause logs it and the raw frame is returned
    LET dT == SetCol(df, "temp_date",
                     [i \in DOMAIN df.rows |-> to_datetime(df.rows[i][date_cols[1]])])
        raises == \E k \in DOMAIN numeric_cols : \E i \in DOMAIN df.rows :
                    /\ notna(df.rows[i][numeric_cols[k]])
                    /\ df.rows[i][numeric_cols[k]].v > 0
    IN  IF raises THEN dT ELSE DF(<<>>, <<>>)
  \* lines 322-325
  ELSE df

\* the branch process_unknown_format takes: the long-form branch of line
\* 240, the best-guess branch of line 296 when it returns its own frame, or
\* the final return of the frame it was given (lines 322-325), which the
\* best-guess branch also reaches when it raises
unknown_branch(df) ==
  LET Numeric(c) == IsNumericCol(df, c)
      numeric_cols == SelectSeq(df.cols, Numeric)
      date_cols  == ColsWith(df.cols, {"date", "month", "year"})
      route_cols == ColsWith(df.cols, {"route", "location", "path"})
      count_cols == ColsWith(numeric_cols, {"count", "volume", "trips"})
      raises == \E k \in DOMAIN numeric_cols : \E i \in DOMAIN df.rows :
                  /\ notna(df.rows[i][numeric_cols[k]])
                  /\ df.rows[i][numeric_cols[k]].v > 0
  IN  IF date_cols # <<>> /\ route_cols # <<>> /\ count_cols # <<>> THEN "long"
      ELSE IF date_cols # <<>> /\ numeric_cols # <<>> /\ ~raises THEN "best_guess"
      ELSE "unrecognized"

\* lines 98-118 of process_bike_data: the column lists and the shape
reader_date_cols(df) == ColsWith(df.cols, {"date", "year", "month", "time"})
reader_route_cols(df) ==
  ColsWith(df.cols, {"bridge", "street", "road", "path", "lane", "route",
                     "burrard", "hornby", "dunsmuir"})
is_wide_format(df) == Len(reader_route_cols(df)) > 1

(***************************************************************************)
(* pdfex.py                                                                *)
(***************************************************************************)
\* Series.str.replace(',', '') on the texts of the model
NoCommas(s) == IF s = "1,250" THEN "1250" ELSE s

\* line 156, one cell: str(cell) without commas, '*' replaced by NaN, then
\* float(); pdf_count_ok is whether float() accepts the cell
pdf_count_ok(c) ==
  \/ c.t \in {"num", "nan"}
  \/ c.t = "str" /\ (NoCommas(c.s) = "*" \/ FloatText(NoCommas(c.s)) # NaN)
pdf_count_of(c) ==
  IF c.t = "str"
  THEN IF NoCommas(c.s) = "*" THEN NaN ELSE FloatText(NoCommas(c.s))
  ELSE c

\* lines 152-158: a column other than Year and Month is converted as a
\* whole, and left as it was when float() rejects one of its cells
pdf_convert_counts(df) ==
  LET Converts(c) == c \notin {"Year", "Month"}
                       /\ \A j \in DOMAIN df.rows : pdf_count_ok(df.rows[j][c])
  IN  DF(df.cols,
         [i \in DOMAIN df.rows |->
            [c \in DOMAIN df.rows[i] |->
               IF Converts(c) THEN pdf_count_of(df.rows[i][c]) ELSE df.rows[i][c]]])

\* str.match(r'^\d{1,2}-[A-Za-z]{3}'), str.extract(r'(\d{1,2})') and
\* str.extract(r'-([A-Za-z]{3})') on the texts of the model; "" is no match
PeriodMatches(s) == s \in {"22-Jan", "22-Foo"}
PeriodDigits(s) == IF s \in {"22-Jan", "22-Foo"} THEN "22" ELSE ""
PeriodLetters(s) ==
  CASE s = "22-Jan" -> "Jan"
    [] s = "22-Foo" -> "Foo"
    [] OTHER        -> ""

\* lines 137-141: the first column one of whose cells looks like '22-Jan'
pdf_date_col(df) ==
  LET Looks(c) == \E i \in DOMAIN df.rows :
                    df.rows[i][c].t = "str" /\ PeriodMatches(df.rows[i][c].s)
      hits == SelectSeq(df.cols, Looks)
  IN  IF hits = <<>> THEN "" ELSE hits[1]

\* lines 143-148: Year is '20' + the digits (of NaN: '20nan'), Month the letters
pdf_extract_year_month(df, date_col) ==
  LET Year(c) == IF c.t = "str" /\ PeriodDigits(c.s) # ""
                 THEN Str("20" \o PeriodDigits(c.s)) ELSE Str("20nan")
      Month(c) == IF c.t = "str" /\ PeriodLetters(c.s) # ""
                  THEN Str(PeriodLetters(c.s)) ELSE NaN
  IN  SetCol(SetCol(df, "Year", [i \in DOMAIN df.rows |-> Year(df.rows[i][date_col])]),
             "Month", [i \in DOMAIN df.rows |-> Month(df.rows[i][date_col])])

\* line 163: month_map = {month[:3]: i+1 ...}; the keys are 'Jan' .. 'Dec'
pdf_month_map(c) ==
  IF c.t # "str" THEN NaN
  ELSE CASE c.s = "Jan" -> Num(1)
         [] c.s = "Feb" -> Num(2)
         [] c.s = "Dec" -> Num(12)
         [] OTHER       -> NaN

\* df.sort_values('Date'): ascending, NaT last, ties in their order
pdf_sort_by_Date(rows) ==
  LET Before(a, b) == a["Date"].t = "ts" /\ (b["Date"].t # "ts" \/ a["Date"].v < b["Date"].v)
      Insert(sorted, r) ==
        LET k == Cardinality({i \in DOMAIN sorted : ~Before(r, sorted[i])})
        IN  SubSeq(sorted, 1, k) \o <<r>> \o SubSeq(sorted, k + 1, Len(sorted))
      f[i \in 0..Len(rows)] == IF i = 0 THEN <<>> ELSE Insert(f[i-1], rows[i])
  IN  f[Len(rows)]

\* process_bike_data: the frame returned, or raised when line 167 raises:
\* Year + '-' is a TypeError on a numeric Year column, and pd.to_datetime,
\* called without errors='coerce', raises on a text that is no date
process_bike_data(df0) ==
  IF df0.isNone THEN [raised |-> FALSE, df |-> NoneDF]
  ELSE
    LET date_col == IF HasCol(df0, "Year") \/ HasCol(df0, "Month")
                    THEN "" ELSE pdf_date_col(df0)
        df1 == IF date_col # "" THEN pdf_extract_year_month(df0, date_col) ELSE df0
        df2 == pdf_convert_counts(df1)
    IN  IF ~(HasCol(df2, "Year") /\ HasCol(df2, "Month"))
        THEN [raised |-> FALSE, df |-> df2]
        ELSE
          LET df3 == SetCol(df2, "MonthNum",
                            [i \in DOMAIN df2.rows |-> pdf_month_map(df2.rows[i]["Month"])])
              text(r) == r["Year"].s \o "-"
                           \o astype_str(r["MonthNum"], ~IsIntCol(df3, "MonthNum"))
                           \o "-15"
              Date(r) == IF r["Year"].t = "str" THEN to_datetime(Str(text(r))) ELSE NaT
              raises ==
                \/ IsNumericCol(df3, "Year")
                \/ \E i \in DOMAIN df3.rows :
                     df3.rows[i]["Year"].t = "str" /\ Date(df3.rows[i]).t # "ts"
              df4 == SetCol(df3, "Date", [i \in DOMAIN df3.rows |-> Date(df3.rows[i])])
          IN  IF raises THEN [raised |-> TRUE, df |-> NoneDF]
              ELSE [raised |-> FALSE, df |-> DF(df4.cols, pdf_sort_by_Date(df4.rows))]

\* create_long_format_data: one observation per cell that is not missing;
\* row['Date'] is a KeyError on a frame without the Date column
create_long_format_data(df) ==
  IF df.isNone THEN [raised |-> FALSE, df |-> NoneDF]
  ELSE
    LET Route(c) == c \notin {"Year", "Month", "MonthNum", "Date"}
        route_cols == SelectSeq(df.cols, Route)
        Obs(r, route) == [Date  |-> r["Date"], Year |-> r["Year"], Month |-> r["Month"],
                          Route |-> Str(route), Count |-> r[route]]
        RowObs(r) ==
          LET g[k \in 0..Len(route_cols)] ==
                IF k = 0 THEN <<>>
                ELSE IF notna(r[route_cols[k]])
                     THEN Append(g[k-1], Obs(r, route_cols[k]))
                     ELSE g[k-1]
          IN  g[Len(route_cols)]
        f[i \in 0..Len(df.rows)] == IF i = 0 THEN <<>> ELSE f[i-1] \o RowObs(df.rows[i])
        emits == \E i \in DOMAIN df.rows : \E c \in Range(route_cols) : notna(df.rows[i][c])
    IN  IF emits /\ ~(HasCol(df, "Date") /\ HasCol(df, "Year") /\ HasCol(df, "Month"))
        THEN [raised |-> TRUE, df |-> NoneDF]
        ELSE [raised |-> FALSE,
              df |-> IF emits THEN DF(Canon, f[Len(df.rows)]) ELSE DF(<<>>, <<>>)]

(***************************************************************************)
(* Inputs of process_excel.main: the two CSV files named on the command    *)
(* line.  A file is not given, given but missing, present but unreadable,  *)
(* or holds a table.                                                       *)
(***************************************************************************)
MaxRecentRows == 2
MaxHistRows == 2

\* all sequences over S of length at most n
SeqsUpTo(S, n) == UNION {[1..k -> S] : k \in 0..n}

\* pd.read_csv infers one type per column: a column holding any text that is
\* no number is read as text throughout, so numbers and text never share a
\* column (empty cells are NaN in either)
CsvTyped(cols, rows) ==
  \A c \in Range(cols) :
    ~(\E i, j \in DOMAIN rows : rows[i][c].t = "num" /\ rows[j][c].t = "str")

RecentRow(date, loc, vol) ==
  [Location |-> loc, Direction |-> Str("NB"), date |-> date, Volume |-> vol]

RecentRowSet ==
  { RecentRow(Str("2020-01-15"), Str("X"), Num(9)),
    RecentRow(Str("2020-01-15"), Str("X"), Num(7)),
    RecentRow(Str("2020-02-15"), Str("Y"), Num(8)),
    RecentRow(Str("n/a"),        Str("X"), Num(4)),
    RecentRow(Str("2020-02-15"), Str("X"), NaN),
    RecentRow(Str("2020-02-15"), Str("Y"), Num(-3)),
    RecentRow(Str("2023-05-10"), Str("Lions Gate"), Str("1,250")),
    RecentRow(Str("2020-02-15"), Str("X"), Str("*")) }

RecentStdCols == <<"Location", "Direction", "date", "Volume">>

\* the same rows under other column names: names the mapping recognises, and
\* a table without any date column
RecentAltTable(rows) ==
  DF(<<"Route", "Timestamp", "Count">>,
     [i \in DOMAIN rows |-> [Route |-> rows[i]["Location"],
                             Timestamp |-> rows[i]["date"],
                             Count |-> rows[i]["Volume"]]])
RecentNoDateTable(rows) ==
  DF(<<"Location", "Volume">>,
     [i \in DOMAIN rows |-> [Location |-> rows[i]["Location"],
                             Volume |-> rows[i]["Volume"]]])

RecentTables ==
  {DF(RecentStdCols, rows) :
     rows \in {rs \in SeqsUpTo(RecentRowSet, MaxRecentRows) : CsvTyped(RecentStdCols, rs)}}
  \cup {RecentAltTable(rows) : rows \in SeqsUpTo(RecentRowSet, 1)}
  \cup {RecentNoDateTable(rows) : rows \in SeqsUpTo(RecentRowSet, 1)}

HistRow(date, x, y) == [Date |-> date, X |-> x, Y |-> y]

HistRowSet ==
  { HistRow(Str("2020-01-15"), Num(5),   Num(0)),
    HistRow(Str("2020-02-15"), Num(-3),  NaN),
    HistRow(Str("n/a"),        Num(2),   Num(1)),
    HistRow(Str("2020-01-15"), Num(0),   NaN),
    HistRow(Str("2020-02-15"), Str("*"), Num(3)) }

\* a date column may also hold numbers (dates written as 20200115)
HistAltRowSet == HistRowSet \cup { HistRow(Num(20200115), Num(5), NaN) }

HistStdCols == <<"Date", "X", "Y">>

\* the same rows with the date column found by keyword, and without one
HistAltTable(rows) ==
  DF(<<"date", "X">>,
     [i \in DOMAIN rows |-> [date |-> rows[i]["Date"], X |-> rows[i]["X"]]])
HistNoDateTable(rows) ==
  DF(<<"X", "Y">>,
     [i \in DOMAIN rows |-> [X |-> rows[i]["X"], Y |-> rows[i]["Y"]]])

HistTables ==
  {DF(HistStdCols, rows) :
     rows \in {rs \in SeqsUpTo(HistRowSet, MaxHistRows) : CsvTyped(HistStdCols, rs)}}
  \cup {HistAltTable(rows) : rows \in SeqsUpTo(HistAltRowSet, 1)}
  \cup {HistNoDateTable(rows) : rows \in SeqsUpTo(HistRowSet, 1)}

File(given, exists, readable, table) ==
  [given |-> given, exists |-> exists, readable |-> readable, table |-> table]

Files(tables) ==
  { File(FALSE, FALSE, FALSE, NoneDF),
    File(TRUE,  FALSE, FALSE, NoneDF),
    File(TRUE,  TRUE,  FALSE, NoneDF) }
  \cup {File(TRUE, TRUE, TRUE, tb) : tb \in tables}

(***************************************************************************)
(* Inputs of excel_reader.process_bike_data: the sheet extract_data_from_  *)
(* excel returned, or None.  The rows of a table are drawn from a row set  *)
(* of its layout; a Month column holds month names only or numbers only.   *)
(***************************************************************************)
MaxReaderRows == 2

MkRow(cols, vals) ==
  [c \in Range(cols) |-> vals[CHOOSE i \in DOMAIN cols : cols[i] = c]]
TablesOf(cols, valset, n) ==
  {DF(cols, [i \in DOMAIN vs |-> MkRow(cols, vs[i])]) : vs \in SeqsUpTo(valset, n)}

WideCols == <<"Year", "Month", "Burrard Bridge", "Hornby Street">>
WideNameRows ==
  { <<Num(2022), Str("Jan"), Num(1000), Num(0)>>,
    <<Num(2022), Str("Feb"), Num(-5),   Str("*")>> }
WideNumberRows ==
  { <<Num(2022), Num(1), Num(1000),  Num(0)>>,
    <<Num(2022), Num(2), Str("12"),  NaN>> }
WideDateCols == <<"Date", "Burrard Bridge", "Hornby Street">>
WideDateRows ==
  { <<Str("2022-01-15"), Num(1000), Num(0)>>,
    <<Str("n/a"),        Num(7),    Num(8)>>,
    <<Str("2020-02-15"), Str("12"), Num(-5)>> }
WideNoDateCols == <<"Burrard Bridge", "Hornby Street">>
WideNoDateRows == { <<Num(1000), Num(0)>> }
LongDateCols == <<"Date", "Location", "Count">>
LongDateRows ==
  { <<Str("2022-01-15"), Str("X"), Num(5)>>,
    <<Str("2022-01-15"), NaN,      Num(6)>>,
    <<NaN,               Str("X"), Num(7)>>,
    <<Str("n/a"),        Str("Y"), Num(0)>> }
LongYearMonthCols == <<"Year", "Month", "Route", "Count">>
LongNameRows ==
  { <<Num(2022), Str("Jan"), Str("X"), Num(5)>>,
    <<Num(2022), Str("FEB"), Str("Y"), Num(6)>> }
LongUnknownMonthRows == { <<Num(2022), Str("Foo"), Str("X"), Num(5)>> }
GuessCols == <<"Date", "X">>
GuessRows ==
  { <<Str("2022-01-15"), Num(5)>>,
    <<Str("2022-01-15"), Num(0)>> }
OtherCols == <<"Timestamp", "X">>
OtherRows == { <<Str("2022-01-15"), Num(5)>> }
\* sheets carrying an explicit date next to year and month columns
WideBothCols == <<"Date", "Year", "Month", "Burrard Bridge", "Hornby Street">>
WideBothRows ==
  { <<Str("2020-02-15"), Num(2022), Num(1), Num(1000), Num(0)>>,
    <<Str("2022-01-15"), Num(2022), Num(1), Num(7),    Num(8)>> }
LongBothCols == <<"Date", "Year", "Month", "Route", "Count">>
LongBothRows == { <<Str("2020-02-15"), Num(2022), Num(1), Str("X"), Num(5)>> }
LongNumberRows ==
  { <<Num(2022), Num(1),  Str("X"), Num(5)>>,
    <<Num(2022), Num(12), Str("Y"), Num(6)>> }
\* a long sheet with two columns named for a location
LongTwoLocationCols == <<"Date", "Location", "Route", "Count">>
LongTwoLocationRows == { <<Str("2022-01-15"), Str("X"), Str("Y"), Num(5)>> }
\* a sheet with a column whose name holds a date word and a route word
WideDualCols == <<"Date", "Burrard Bridge", "Bridge Month">>
WideDualRows ==
  { <<Str("2022-01-15"), Num(1000), Num(3)>>,
    <<Str("2020-02-15"), Num(0),    Num(12)>> }

ReaderTables ==
  TablesOf(WideCols, WideNameRows, MaxReaderRows)
  \cup TablesOf(WideCols, WideNumberRows, MaxReaderRows)
  \cup TablesOf(WideDateCols, WideDateRows, MaxReaderRows)
  \cup TablesOf(WideNoDateCols, WideNoDateRows, MaxReaderRows)
  \cup TablesOf(LongDateCols, LongDateRows, MaxReaderRows)
  \cup TablesOf(LongYearMonthCols, LongNameRows, MaxReaderRows)
  \cup TablesOf(LongYearMonthCols, LongUnknownMonthRows, MaxReaderRows)
  \cup TablesOf(GuessCols, GuessRows, MaxReaderRows)
  \cup TablesOf(OtherCols, OtherRows, MaxReaderRows)
  \cup TablesOf(WideBothCols, WideBothRows, MaxReaderRows)
  \cup TablesOf(LongBothCols, LongBothRows, MaxReaderRows)
  \cup TablesOf(LongYearMonthCols, LongNumberRows, MaxReaderRows)
  \cup TablesOf(WideDualCols, WideDualRows, MaxReaderRows)
  \cup TablesOf(LongTwoLocationCols, LongTwoLocationRows, MaxReaderRows)

(***************************************************************************)
(* Inputs of pdfex.main: the table extract_data_from_pdf returned, or None *)
(* when no table was found.  The text path builds Year as text and the     *)
(* counts as integers; a table read by tabula has whatever columns and     *)
(* texts the PDF shows.                                                    *)
(***************************************************************************)
MaxPdfRows == 2

PdfCols == <<"Year", "Month", "Burrard Bridge", "Hornby Street">>
PdfRows ==
  { <<Str("2022"), Str("Jan"), Num(1000), Num(0)>>,
    <<Str("2022"), Str("Feb"), Num(7), NaN>>,
    <<Str("2022"), Str("Foo"), Num(7), Num(8)>>,
    <<Str("2022"), Str("JAN"), Num(9), NaN>>,
    <<Str("2022"), Str("Dec"), Num(3), Num(4)>>,
    <<Str("2022"), Str("Dec"), Str("1,250"), Str("*")>>,
    <<Num(2022), Str("Jan"), Num(5), Num(6)>> }
PdfPeriodCols == <<"Period", "Burrard Bridge">>
PdfPeriodRows == { <<Str("22-Jan"), Num(5)>>, <<Str("22-Foo"), Num(6)>> }
PdfNoDateCols == <<"Burrard Bridge">>
PdfNoDateRows == { <<Num(5)>> }

PdfTables ==
  {NoneDF}
    \cup {t \in TablesOf(PdfCols, PdfRows, MaxPdfRows) : CsvTyped(t.cols, t.rows)}
    \cup TablesOf(PdfPeriodCols, PdfPeriodRows, MaxPdfRows)
    \cup TablesOf(PdfNoDateCols, PdfNoDateRows, MaxPdfRows)

(***************************************************************************)
(* process_excel.main as a state machine                                   *)
(***************************************************************************)
VARIABLES
  pc,               \* position in main
  recent_arg,       \* the file named by --recent
  historical_arg,   \* the file named by --historical
  recent_file,      \* TRUE while main's recent_file is not None
  historical_file,  \* TRUE while main's historical_file is not None
  recent_data,
  historical_data,
  combined_data,
  output_file,      \* [written, df]: what to_csv has put in the output file
  exit_status,      \* "running", "0", "1", or "exception" (uncaught, status 1)
  sm_pc,            \* merging a processed dataset with itself: position,
  sm_source,        \*   the path and raw table it comes from,
  sm_data,          \*   the dataset A the processing path returned,
  sm_result,        \*   and combine_bike_data(A, A)
  sm_reported,      \*   the rows the warnings of the run report as dropped,
  xr_pc,            \* excel_reader.process_bike_data: position,
  xr_df,            \*   the frame it is given,
  xr_result,        \*   and the frame it returns,
  xr_path,          \*   the path taken: "none", "wide", "long", "best_guess"
                    \*   or "unrecognized",
  xr_saved,         \*   whether excel_reader.main wrote the result to CSV
  rn_pc,            \* runner.main: position,
  rn_args,          \*   the command line and what it names,
  rn_file_type,     \*   file_type: "pdf", "excel" or "None",
  rn_bike_data,     \*   bike_data: "unbound", "None" or "data",
  rn_csv_written,   \*   whether the extracted data went to the _data.csv file,
  rn_animation,     \*   "no", "created" or "failed": create_bike_data_animation
  rn_status,        \*   "running", "0", "1" or "exception" (uncaught)
  px_pc,            \* pdfex.main: position,
  px_raw,           \*   the table extract_data_from_pdf returned,
  px_processed,     \*   the frame process_bike_data returned,
  px_long,          \*   the frame create_long_format_data returned,
  px_saved,         \*   whether save_to_csv wrote it,
  px_status,        \*   "running", "done" or "exception" (uncaught)
  cv_pc,            \* create_visualization.main: position,
  cv_env,           \*   the command line and what the run meets,
  cv_files,         \*   the files check_files found, the combined CSV on disk,
  cv_runs,          \*   the scripts run so far with their return codes,
  cv_stage,         \*   what the processing and visualization stages returned,
  cv_exit           \*   "running", "0" or "1"

main_vars == <<pc, recent_arg, historical_arg, recent_file, historical_file,
               recent_data, historical_data, combined_data, output_file, exit_status>>
sm_vars == <<sm_pc, sm_source, sm_data, sm_result, sm_reported>>
xr_vars == <<xr_pc, xr_df, xr_result, xr_path, xr_saved>>
rn_vars == <<rn_pc, rn_args, rn_file_type, rn_bike_data, rn_csv_written,
             rn_animation, rn_status>>
px_vars == <<px_pc, px_raw, px_processed, px_long, px_saved, px_status>>
cv_vars == <<cv_pc, cv_env, cv_files, cv_runs, cv_stage, cv_exit>>
vars == <<main_vars, sm_vars, xr_vars, rn_vars, px_vars, cv_vars>>

\* the variables of a run that is not the one under study
MainIdle ==
  /\ pc = "idle"
  /\ recent_arg = File(FALSE, FALSE, FALSE, NoneDF)
  /\ historical_arg = File(FALSE, FALSE, FALSE, NoneDF)
  /\ recent_file = FALSE
  /\ historical_file = FALSE
  /\ recent_data = NoneDF
  /\ historical_data = NoneDF
  /\ combined_data = NoneDF
  /\ output_file = [written |-> FALSE, df |-> NoneDF]
  /\ exit_status = "running"
SelfMergeIdle ==
  /\ sm_pc = "idle"
  /\ sm_source = [path |-> "none", table |-> NoneDF]
  /\ sm_data = NoneDF
  /\ sm_result = NoneDF
  /\ sm_reported = 0

ReaderIdle ==
  /\ xr_pc = "idle"
  /\ xr_df = NoneDF
  /\ xr_result = NoneDF
  /\ xr_path = "none"
  /\ xr_saved = FALSE

\* the command line of runner.py and what it meets: data_path given or not,
\* the file there or not, its lower-cased extension, the --format option
\* ("" when absent), whether ffmpeg runs, and how the extractor ends
\* ("data", "None" or "raises")
RunnerArgs(given, exists, ext, format, ffmpeg, extract) ==
  [given |-> given, exists |-> exists, ext |-> ext, format |-> format,
   ffmpeg |-> ffmpeg, extract |-> extract]

RunnerIdle ==
  /\ rn_pc = "idle"
  /\ rn_args = RunnerArgs(FALSE, FALSE, "", "", FALSE, "None")
  /\ rn_file_type = "None"
  /\ rn_bike_data = "unbound"
  /\ rn_csv_written = FALSE
  /\ rn_animation = "no"
  /\ rn_status = "running"

PdfIdle ==
  /\ px_pc = "idle"
  /\ px_raw = NoneDF
  /\ px_processed = NoneDF
  /\ px_long = NoneDF
  /\ px_saved = FALSE
  /\ px_status = "running"

\* the command line of create_visualization.py and what the run meets:
\* which input files exist, --skip-processing, whether the combined CSV is
\* already on disk, how launching each processing script ends ("rc0", "rc1",
\* or "notfound" when the launch raises FileNotFoundError), whether a script
\* that ran wrote the combined CSV, whether the recent file can be read
\* directly, and whether the visualization succeeds
PipelineEnv(recent, historical, skip, combined, csv, excel, writes, readable, viz) ==
  [recent_exists |-> recent, historical_exists |-> historical,
   skip_processing |-> skip, combined_exists |-> combined,
   process_csv |-> csv, process_excel |-> excel, script_writes |-> writes,
   recent_readable |-> readable, viz_ok |-> viz]

PipelineIdle ==
  /\ cv_pc = "idle"
  /\ cv_env = PipelineEnv(FALSE, FALSE, FALSE, FALSE, "rc1", "rc1", FALSE, FALSE, FALSE)
  /\ cv_files = [recent |-> FALSE, historical |-> FALSE, combined |-> FALSE]
  /\ cv_runs = <<>>
  /\ cv_stage = [processing |-> "none", direct |-> "none", visualization |-> "none"]
  /\ cv_exit = "running"

Init ==
  /\ SelfMergeIdle
  /\ ReaderIdle
  /\ RunnerIdle
  /\ PdfIdle
  /\ PipelineIdle
  /\ pc = "check_files"
  /\ recent_arg \in Files(RecentTables)
  /\ historical_arg \in Files(HistTables)
  /\ recent_file = FALSE
  /\ historical_file = FALSE
  /\ recent_data = NoneDF
  /\ historical_data = NoneDF
  /\ combined_data = NoneDF
  /\ output_file = [written |-> FALSE, df |-> NoneDF]
  /\ exit_status = "running"

\* lines 282-293: drop the files that do not exist; leave when none is left
CheckFiles ==
  /\ pc = "check_files"
  /\ recent_file' = (recent_arg.given /\ recent_arg.exists)
  /\ historical_file' = (historical_arg.given /\ historical_arg.exists)
  /\ IF ~recent_file' /\ ~historical_file'
     THEN pc' = "done" /\ exit_status' = "1"
     ELSE pc' = "process_recent" /\ exit_status' = exit_status
  /\ UNCHANGED <<recent_arg, historical_arg, recent_data, historical_data,
                 combined_data, output_file, sm_vars, xr_vars, rn_vars, px_vars, cv_vars>>

\* lines 295-300
ProcessRecent ==
  /\ pc = "process_recent"
  /\ recent_data' = IF recent_file
                    THEN process_recent_csv_data(read_csv_data(recent_arg))
                    ELSE NoneDF
  /\ pc' = "process_historical"
  /\ UNCHANGED <<recent_arg, historical_arg, recent_file, historical_file,
                 historical_data, combined_data, output_file, exit_status, sm_vars, xr_vars, rn_vars, px_vars, cv_vars>>

\* lines 302-307
ProcessHistorical ==
  /\ pc = "process_historical"
  /\ historical_data' = IF historical_file
                        THEN process_historical_csv_data(read_csv_data(historical_arg))
                        ELSE NoneDF
  /\ pc' = "combine"
  /\ UNCHANGED <<recent_arg, historical_arg, recent_file, historical_file,
                 recent_data, combined_data, output_file, exit_status, sm_vars, xr_vars, rn_vars, px_vars, cv_vars>>

\* line 310
Combine ==
  /\ pc = "combine"
  /\ combined_data' = combine_bike_data(recent_data, historical_data)
  /\ pc' = "save"
  /\ UNCHANGED <<recent_arg, historical_arg, recent_file, historical_file,
                 recent_data, historical_data, output_file, exit_status, sm_vars, xr_vars, rn_vars, px_vars, cv_vars>>

\* lines 313-315 and 325-327: to_csv, or return 1 without writing
Save ==
  /\ pc = "save"
  /\ IF ~combined_data.isNone
     THEN /\ output_file' = [written |-> TRUE, df |-> combined_data]
          /\ pc' = "summary"
          /\ exit_status' = exit_status
     ELSE /\ output_file' = output_file
          /\ pc' = "done"
          /\ exit_status' = "1"
  /\ UNCHANGED <<recent_arg, historical_arg, recent_file, historical_file,
                 recent_data, historical_data, combined_data, sm_vars, xr_vars, rn_vars, px_vars, cv_vars>>

\* lines 317-322: combined_data['Date'], ['Route'], ['Count'] raise KeyError on
\* a frame without that column; f"{sum():,}" raises on a Count column of text
summary_raises(df) ==
  \/ \E c \in {"Date", "Route", "Count"} : ~HasCol(df, c)
  \/ \E i \in DOMAIN df.rows : df.rows[i]["Count"].t = "str"

\* lines 317-324
Summary ==
  /\ pc = "summary"
  /\ exit_status' = IF summary_raises(combined_data) THEN "exception" ELSE "0"
  /\ pc' = "done"
  /\ UNCHANGED <<recent_arg, historical_arg, recent_file, historical_file,
                 recent_data, historical_data, combined_data, output_file, sm_vars, xr_vars, rn_vars, px_vars, cv_vars>>

Next ==
  \/ CheckFiles
  \/ ProcessRecent
  \/ ProcessHistorical
  \/ Combine
  \/ Save
  \/ Summary

Spec == Init /\ [][Next]_vars

(***************************************************************************)
(* Merging a dataset with itself: a processing path of process_excel.py    *)
(* turns a raw table into the dataset A, and combine_bike_data(A, A) is    *)
(* taken.                                                                  *)
(***************************************************************************)
InitSelfMerge ==
  /\ MainIdle
  /\ ReaderIdle
  /\ RunnerIdle
  /\ PdfIdle
  /\ PipelineIdle
  /\ sm_pc = "process"
  /\ sm_source \in {[path |-> "recent", table |-> tb] : tb \in RecentTables}
                   \cup {[path |-> "historical", table |-> tb] : tb \in HistTables}
  /\ sm_data = NoneDF
  /\ sm_result = NoneDF
  /\ sm_reported = 0

SelfProcess ==
  /\ sm_pc = "process"
  /\ sm_data' = IF sm_source.path = "recent"
                THEN process_recent_csv_data(sm_source.table)
                ELSE process_historical_csv_data(sm_source.table)
  \* the one warning that counts dropped rows is that of line 111;
  \* process_historical_csv_data has none
  /\ sm_reported' = IF sm_source.path = "recent"
                    THEN recent_invalid_dates(sm_source.table)
                    ELSE sm_reported
  /\ sm_pc' = IF sm_data'.isNone THEN "no_data" ELSE "merge"
  /\ UNCHANGED <<main_vars, xr_vars, rn_vars, px_vars, cv_vars, sm_source, sm_result>>

SelfMerge ==
  /\ sm_pc = "merge"
  /\ sm_result' = combine_bike_data(sm_data, sm_data)
  /\ sm_pc' = "merged"
  \* lines 250 and 261 log the sizes of the frames, no count of dropped rows
  /\ UNCHANGED <<main_vars, xr_vars, rn_vars, px_vars, cv_vars, sm_source, sm_data, sm_reported>>

NextSelfMerge ==
  \/ SelfProcess
  \/ SelfMerge

SpecSelfMerge == InitSelfMerge /\ [][NextSelfMerge]_vars

(***************************************************************************)
(* excel_reader.process_bike_data as a state machine                       *)
(***************************************************************************)
InitReader ==
  /\ MainIdle
  /\ SelfMergeIdle
  /\ RunnerIdle
  /\ PdfIdle
  /\ PipelineIdle
  /\ xr_pc = "classify"
  /\ xr_df \in ReaderTables \cup {NoneDF}
  /\ xr_result = NoneDF
  /\ xr_path = "none"
  /\ xr_saved = FALSE

\* lines 85-126: None for None; else the shape decides the path
ReaderClassify ==
  /\ xr_pc = "classify"
  /\ xr_pc' = IF xr_df.isNone THEN "save"
              ELSE IF is_wide_format(xr_df) THEN "wide" ELSE "unknown"
  /\ UNCHANGED <<main_vars, sm_vars, rn_vars, px_vars, cv_vars, xr_df, xr_result, xr_path, xr_saved>>

\* line 123
ReaderWide ==
  /\ xr_pc = "wide"
  /\ xr_result' = process_wide_format(xr_df, reader_date_cols(xr_df),
                                      reader_route_cols(xr_df))
  /\ xr_path' = "wide"
  /\ xr_pc' = "save"
  /\ UNCHANGED <<main_vars, sm_vars, rn_vars, px_vars, cv_vars, xr_df, xr_saved>>

\* line 126
ReaderUnknown ==
  /\ xr_pc = "unknown"
  /\ xr_result' = process_unknown_format(xr_df)
  /\ xr_path' = unknown_branch(xr_df)
  /\ xr_pc' = "save"
  /\ UNCHANGED <<main_vars, sm_vars, rn_vars, px_vars, cv_vars, xr_df, xr_saved>>

\* lines 344-351 of excel_reader.main: to_csv unless the result is None
ReaderSave ==
  /\ xr_pc = "save"
  /\ xr_saved' = ~xr_result.isNone
  /\ xr_pc' = "done"
  /\ UNCHANGED <<main_vars, sm_vars, rn_vars, px_vars, cv_vars, xr_df, xr_result, xr_path>>

NextReader ==
  \/ ReaderClassify
  \/ ReaderWide
  \/ ReaderUnknown
  \/ ReaderSave

SpecReader == InitReader /\ [][NextReader]_vars


(***************************************************************************)
(* runner.main as a state machine                                          *)
(***************************************************************************)
\* determine_file_type: None for no path and for an unsupported extension
determine_file_type(given, ext) ==
  IF ~given THEN "None"
  ELSE IF ext = ".pdf" THEN "pdf"
  ELSE IF ext \in {".xlsx", ".xls", ".xlsm"} THEN "excel"
  ELSE "None"

RunnerArgSet ==
  { RunnerArgs(given, exists, ext, format, ffmpeg, extract) :
      given \in BOOLEAN, exists \in BOOLEAN,
      ext \in {".pdf", ".xlsx", ".csv"}, format \in {"", "pdf", "excel"},
      ffmpeg \in BOOLEAN, extract \in {"data", "None", "raises"} }

InitRunner ==
  /\ MainIdle
  /\ SelfMergeIdle
  /\ ReaderIdle
  /\ PdfIdle
  /\ PipelineIdle
  /\ rn_pc = "file_type"
  \* without a data_path there is no file and no extension
  /\ rn_args \in {a \in RunnerArgSet :
                    ~a.given => (~a.exists /\ a.ext = ".csv")}
  /\ rn_file_type = "None"
  /\ rn_bike_data = "unbound"
  /\ rn_csv_written = FALSE
  /\ rn_animation = "no"
  /\ rn_status = "running"

\* lines 121-127: check_ffmpeg only logs; file_type from --format or the path
RunnerFileType ==
  /\ rn_pc = "file_type"
  /\ rn_file_type' = IF rn_args.format # "" THEN rn_args.format
                      ELSE determine_file_type(rn_args.given, rn_args.ext)
  /\ rn_pc' = "extract"
  /\ UNCHANGED <<main_vars, sm_vars, xr_vars, px_vars, cv_vars, rn_args, rn_bike_data,
                 rn_csv_written, rn_animation, rn_status>>

\* lines 130-151: bike_data is assigned only by an extractor; line 145 reads
\* it, and reading the unassigned local raises UnboundLocalError
RunnerExtract ==
  /\ rn_pc = "extract"
  /\ IF rn_args.given /\ rn_args.exists
     THEN IF rn_file_type \in {"pdf", "excel"}
          THEN IF rn_args.extract = "raises"
               THEN /\ rn_bike_data' = rn_bike_data
                    /\ rn_csv_written' = rn_csv_written
                    /\ rn_status' = "exception"
                    /\ rn_pc' = "done"
               ELSE /\ rn_bike_data' = rn_args.extract
                    /\ rn_csv_written' = (rn_args.extract = "data")
                    /\ rn_status' = rn_status
                    /\ rn_pc' = "visualize"
          ELSE /\ rn_bike_data' = rn_bike_data
               /\ rn_csv_written' = rn_csv_written
               /\ rn_status' = "exception"
               /\ rn_pc' = "done"
     ELSE /\ rn_bike_data' = rn_bike_data
          /\ rn_csv_written' = rn_csv_written
          /\ rn_status' = rn_status
          /\ rn_pc' = "visualize"
  /\ UNCHANGED <<main_vars, sm_vars, xr_vars, px_vars, cv_vars, rn_args, rn_file_type, rn_animation>>

\* lines 154-163: line 155 reads bike_data; the animation needs ffmpeg to save
RunnerVisualize ==
  /\ rn_pc = "visualize"
  /\ IF rn_bike_data = "unbound"
     THEN rn_animation' = rn_animation /\ rn_status' = "exception"
     ELSE IF rn_bike_data = "data"
     THEN IF rn_args.ffmpeg
          THEN rn_animation' = "created" /\ rn_status' = "0"
          ELSE rn_animation' = "failed" /\ rn_status' = "exception"
     ELSE rn_animation' = rn_animation /\ rn_status' = "1"
  /\ rn_pc' = "done"
  /\ UNCHANGED <<main_vars, sm_vars, xr_vars, px_vars, cv_vars, rn_args, rn_file_type,
                 rn_bike_data, rn_csv_written>>

NextRunner ==
  \/ RunnerFileType
  \/ RunnerExtract
  \/ RunnerVisualize

SpecRunner == InitRunner /\ [][NextRunner]_vars

(***************************************************************************)
(* pdfex.main: extract, process, convert to long format, save.  No step    *)
(* catches an exception, so one that is raised ends the run.               *)
(***************************************************************************)
InitPdf ==
  /\ MainIdle
  /\ SelfMergeIdle
  /\ ReaderIdle
  /\ RunnerIdle
  /\ PipelineIdle
  /\ px_pc = "process"
  /\ px_raw \in PdfTables
  /\ px_processed = NoneDF
  /\ px_long = NoneDF
  /\ px_saved = FALSE
  /\ px_status = "running"

\* line 215: processed_data = process_bike_data(raw_data)
PdfProcess ==
  /\ px_pc = "process"
  /\ LET out == process_bike_data(px_raw) IN
       /\ px_processed' = out.df
       /\ px_status' = IF out.raised THEN "exception" ELSE px_status
       /\ px_pc' = IF out.raised THEN "done" ELSE "long"
  /\ UNCHANGED <<main_vars, sm_vars, xr_vars, rn_vars, cv_vars, px_raw, px_long, px_saved>>

\* line 218: long_data = create_long_format_data(processed_data)
PdfLongFormat ==
  /\ px_pc = "long"
  /\ LET out == create_long_format_data(px_processed) IN
       /\ px_long' = out.df
       /\ px_status' = IF out.raised THEN "exception" ELSE px_status
       /\ px_pc' = IF out.raised THEN "done" ELSE "save"
  /\ UNCHANGED <<main_vars, sm_vars, xr_vars, rn_vars, cv_vars, px_raw, px_processed, px_saved>>

\* lines 200-208, 221-223: save_to_csv writes whatever is not None
PdfSave ==
  /\ px_pc = "save"
  /\ px_saved' = ~px_long.isNone
  /\ px_status' = "done"
  /\ px_pc' = "done"
  /\ UNCHANGED <<main_vars, sm_vars, xr_vars, rn_vars, cv_vars, px_raw, px_processed, px_long>>

NextPdf ==
  \/ PdfProcess
  \/ PdfLongFormat
  \/ PdfSave

SpecPdf == InitPdf /\ [][NextPdf]_vars

(***************************************************************************)
(* create_visualization.main: check_files, then process_csv_files (or the  *)
(* check for the combined CSV under --skip_processing), then               *)
(* create_visualization.  process_csv_files is taken one launch at a time. *)
(***************************************************************************)
\* after_process_csv that runs the fallback whatever process_csv.py returned
after_process_csv_always_fallback(launch) ==
  CASE launch = "rc0" -> "process_excel"
    [] launch = "rc1" -> "process_excel"
    [] OTHER          -> "direct"

\* after_processing that goes on to the visualization in either case
after_processing_always(success) == "visualize"

\* process_csv_files, lines 120-133: what follows the launch of
\* process_csv.py: return on exit code 0, the fallback on any other exit
\* code, direct processing when the launch raises FileNotFoundError
after_process_csv(launch) ==
  CASE launch = "rc0" -> "return"
    [] launch = "rc1" -> "process_excel"
    [] OTHER          -> "direct"

\* process_csv_files, lines 146-160: process_excel.py is the last script
after_process_excel(launch) ==
  CASE launch = "rc0" -> "return"
    [] launch = "rc1" -> "return"
    [] OTHER          -> "direct"

\* main, lines 320-324: a failed processing stage ends the run
after_processing(success) == IF success THEN "visualize" ELSE "done"

PipelineEnvSet ==
  { PipelineEnv(recent, historical, skip, combined, csv, excel, writes, readable, viz) :
      recent \in BOOLEAN, historical \in BOOLEAN, skip \in BOOLEAN,
      combined \in BOOLEAN, csv \in {"rc0", "rc1", "notfound"},
      excel \in {"rc0", "rc1", "notfound"}, writes \in BOOLEAN,
      readable \in BOOLEAN, viz \in BOOLEAN }

InitPipeline ==
  /\ MainIdle
  /\ SelfMergeIdle
  /\ ReaderIdle
  /\ RunnerIdle
  /\ PdfIdle
  /\ cv_pc = "check_files"
  \* a file that does not exist cannot be read
  /\ cv_env \in {e \in PipelineEnvSet : e.recent_readable => e.recent_exists}
  /\ cv_files = [recent |-> FALSE, historical |-> FALSE, combined |-> FALSE]
  /\ cv_runs = <<>>
  /\ cv_stage = [processing |-> "none", direct |-> "none", visualization |-> "none"]
  /\ cv_exit = "running"

\* lines 299-314 and 318, 327: the paths check_files found (None otherwise);
\* return 1 when there is neither
CvCheckFiles ==
  /\ cv_pc = "check_files"
  /\ cv_files' = [recent |-> cv_env.recent_exists,
                  historical |-> cv_env.historical_exists,
                  combined |-> cv_env.combined_exists]
  /\ IF ~cv_env.recent_exists /\ ~cv_env.historical_exists
     THEN cv_pc' = "done" /\ cv_exit' = "1"
     ELSE /\ cv_pc' = IF cv_env.skip_processing THEN "skip_check" ELSE "process_csv"
          /\ cv_exit' = cv_exit
  /\ UNCHANGED <<main_vars, sm_vars, xr_vars, rn_vars, px_vars, cv_env, cv_runs, cv_stage>>

\* lines 106-133: ' '.join(cmd) raises TypeError when a path is None and the
\* outer except returns False; otherwise process_csv.py is launched
CvProcessCsv ==
  /\ cv_pc = "process_csv"
  /\ IF ~(cv_files.recent /\ cv_files.historical)
     THEN /\ cv_stage' = [cv_stage EXCEPT !.processing = "failed"]
          /\ cv_pc' = after_processing(FALSE)
          /\ cv_exit' = IF after_processing(FALSE) = "done" THEN "1" ELSE cv_exit
          /\ UNCHANGED <<cv_runs, cv_files>>
     ELSE
       LET launch == cv_env.process_csv
           next == after_process_csv(launch)
           success == launch = "rc0"
       IN
       /\ cv_runs' = IF launch = "notfound" THEN cv_runs
                     ELSE Append(cv_runs, [script |-> "process_csv.py",
                                           rc |-> IF launch = "rc0" THEN 0 ELSE 1])
       /\ cv_files' = [cv_files EXCEPT !.combined =
                         @ \/ (launch = "rc0" /\ cv_env.script_writes)]
       /\ IF next = "return"
          THEN /\ cv_stage' = [cv_stage EXCEPT !.processing =
                                 IF success THEN "ok" ELSE "failed"]
               /\ cv_pc' = after_processing(success)
               /\ cv_exit' = IF after_processing(success) = "done" THEN "1" ELSE cv_exit
          ELSE /\ cv_stage' = cv_stage
               /\ cv_pc' = next
               /\ cv_exit' = cv_exit
  /\ UNCHANGED <<main_vars, sm_vars, xr_vars, rn_vars, px_vars, cv_env>>

\* lines 133-160: the fallback script
CvProcessExcel ==
  /\ cv_pc = "process_excel"
  /\ LET launch == cv_env.process_excel
         next == after_process_excel(launch)
         success == launch = "rc0"
     IN
     /\ cv_runs' = IF launch = "notfound" THEN cv_runs
                   ELSE Append(cv_runs, [script |-> "process_excel.py",
                                         rc |-> IF launch = "rc0" THEN 0 ELSE 1])
     /\ cv_files' = [cv_files EXCEPT !.combined =
                       @ \/ (launch = "rc0" /\ cv_env.script_writes)]
     /\ IF next = "return"
        THEN /\ cv_stage' = [cv_stage EXCEPT !.processing =
                               IF success THEN "ok" ELSE "failed"]
             /\ cv_pc' = after_processing(success)
             /\ cv_exit' = IF after_processing(success) = "done" THEN "1" ELSE cv_exit
        ELSE /\ cv_stage' = cv_stage
             /\ cv_pc' = next
             /\ cv_exit' = cv_exit
  /\ UNCHANGED <<main_vars, sm_vars, xr_vars, rn_vars, px_vars, cv_env>>

\* lines 162-190: only the recent file is read (line 175 tests
\* historical_data, which is None); what was read is saved as the combined CSV
CvDirect ==
  /\ cv_pc = "direct"
  /\ LET success == cv_files.recent /\ cv_env.recent_readable IN
     /\ cv_stage' = [cv_stage EXCEPT !.processing = IF success THEN "ok" ELSE "failed",
                                     !.direct = IF success THEN "saved" ELSE "no_data"]
     /\ cv_files' = [cv_files EXCEPT !.combined = @ \/ success]
     /\ cv_pc' = after_processing(success)
     /\ cv_exit' = IF after_processing(success) = "done" THEN "1" ELSE cv_exit
  /\ UNCHANGED <<main_vars, sm_vars, xr_vars, rn_vars, px_vars, cv_env, cv_runs>>

\* lines 326-333: --skip_processing needs the combined CSV
CvSkipCheck ==
  /\ cv_pc = "skip_check"
  /\ cv_stage' = [cv_stage EXCEPT !.processing = "skipped"]
  /\ IF cv_files.combined
     THEN cv_pc' = "visualize" /\ cv_exit' = cv_exit
     ELSE cv_pc' = "done" /\ cv_exit' = "1"
  /\ UNCHANGED <<main_vars, sm_vars, xr_vars, rn_vars, px_vars, cv_env, cv_files, cv_runs>>

\* lines 338-347 and 204-206: create_visualization returns False when the
\* combined CSV is not there
CvVisualize ==
  /\ cv_pc = "visualize"
  /\ LET success == cv_files.combined /\ cv_env.viz_ok IN
     /\ cv_stage' = [cv_stage EXCEPT !.visualization = IF success THEN "ok" ELSE "failed"]
     /\ cv_exit' = IF success THEN "0" ELSE "1"
  /\ cv_pc' = "done"
  /\ UNCHANGED <<main_vars, sm_vars, xr_vars, rn_vars, px_vars, cv_env, cv_files, cv_runs>>

NextPipeline ==
  \/ CvCheckFiles
  \/ CvProcessCsv
  \/ CvProcessExcel
  \/ CvDirect
  \/ CvSkipCheck
  \/ CvVisualize

SpecPipeline == InitPipeline /\ [][NextPipeline]_vars

(***************************************************************************)
(* Vocabulary of the properties                                            *)
(***************************************************************************)
HasCanon(df) == \A c \in Range(Canon) : HasCol(df, c)
UniqueKeys(rows) ==
  \A i, j \in DOMAIN rows : i < j => ~SameKey(rows[i], rows[j])
IsSorted(rows) ==
  \A i \in DOMAIN rows : i < Len(rows) => ~KeyLess(rows[i+1], rows[i])
\* the rows of df of the key of r, in order
WithKey(df, r) ==
  LET Hit(x) == SameKey(x, r) IN SelectSeq(df.rows, Hit)
\* the same observations, each as often, in any order
SameObservations(a, b) ==
  /\ ~a.isNone /\ ~b.isNone
  /\ Len(a.rows) = Len(b.rows)
  /\ \A r \in Range(a.rows) \cup Range(b.rows) :
       Cardinality({i \in DOMAIN a.rows : a.rows[i] = r})
         = Cardinality({i \in DOMAIN b.rows : b.rows[i] = r})

\* combine_bike_data has returned in this run of main
Merged ==
  \/ pc \in {"save", "summary"}
  \/ pc = "done" /\ (recent_file \/ historical_file)
\* both processing paths have returned
Processed == pc = "combine" \/ Merged
BothPresent == ~recent_data.isNone /\ ~historical_data.isNone

\* a key held by both sources with different counts
Overlap(h, r) == SameKey(h, r) /\ h["Count"] # r["Count"]

C2_UniqueAlways ==
  (Merged /\ ~combined_data.isNone) => UniqueKeys(combined_data.rows)

(***************************************************************************)
(* C2 (amended): when both sources are present, the dataset                *)
(* combine_bike_data returns holds no two observations with the same       *)
(* (Date, Route) key; a single present source is returned as it is,        *)
(* repeated keys included.                                                 *)
(***************************************************************************)
C2_UniqueWhenBoth ==
  /\ (Merged /\ BothPresent /\ ~combined_data.isNone) =>
       UniqueKeys(combined_data.rows)
  /\ (Merged /\ ~BothPresent /\ ~combined_data.isNone) =>
       combined_data \in {recent_data, historical_data}

C2_Witness ==
  /\ Merged /\ BothPresent /\ ~combined_data.isNone
  /\ ~UniqueKeys(historical_data.rows \o recent_data.rows)
  /\ Len(combined_data.rows) >= 2

C5_AbsentSource ==
  Merged =>
    /\ (recent_data.isNone /\ ~historical_data.isNone) =>
         combined_data = historical_data
    /\ (historical_data.isNone /\ ~recent_data.isNone) =>
         combined_data = recent_data
    /\ (recent_data.isNone /\ historical_data.isNone) => combined_data.isNone

C5_Witness ==
  /\ Merged /\ historical_data.isNone /\ ~recent_data.isNone
  /\ ~UniqueKeys(recent_data.rows)
  /\ combined_data = recent_data

(***************************************************************************)
(* C6 (as stated): when one source's processing path yields a dataset      *)
(* with zero observations and the other a non-empty dataset B, the merge   *)
(* returns exactly B; when both have zero observations it returns None.    *)
(***************************************************************************)
C6_EmptySource ==
  (Merged /\ BothPresent) =>
    /\ (Len(historical_data.rows) = 0 /\ Len(recent_data.rows) > 0) =>
         SameObservations(combined_data, recent_data)
    /\ (Len(recent_data.rows) = 0 /\ Len(historical_data.rows) > 0) =>
         SameObservations(combined_data, historical_data)
    /\ (Len(recent_data.rows) = 0 /\ Len(historical_data.rows) = 0) =>
         combined_data.isNone

(***************************************************************************)
(* C7 (as stated): a run of main in which both sources are missing,        *)
(* unreadable or fail processing ends with a failure status and writes no  *)
(* output file; the output file is written only in runs that return        *)
(* success.                                                                *)
(***************************************************************************)
C7_NoDataWritesNothing ==
  pc = "done" =>
    /\ (recent_data.isNone /\ historical_data.isNone) =>
         (exit_status # "0" /\ ~output_file.written)
    /\ output_file.written => exit_status = "0"


(***************************************************************************)
(* C4 (as stated): for every canonical dataset A (the five columns) a      *)
(* processing path produces, combine_bike_data(A, A) is a dataset equal    *)
(* to A: the same observations, none lost and none added.                  *)
(***************************************************************************)
C4_SelfMergeEqual ==
  (sm_pc = "merged" /\ HasCanon(sm_data)) => SameObservations(sm_result, sm_data)

(***************************************************************************)
(* C4 (amended): for every canonical dataset A a processing path produces  *)
(* that holds no two observations with the same (Date, Route) key,         *)
(* combine_bike_data(A, A) holds the same observations as A, none lost     *)
(* and none added.                                                         *)
(***************************************************************************)
C4_SelfMergeUniqueKeys ==
  (sm_pc = "merged" /\ HasCanon(sm_data) /\ UniqueKeys(sm_data.rows)) =>
    SameObservations(sm_result, sm_data)

C4_Witness ==
  /\ sm_pc = "merged" /\ HasCanon(sm_data)
  /\ UniqueKeys(sm_data.rows) /\ Len(sm_data.rows) >= 2
  /\ ~IsSorted(sm_data.rows)
  /\ SameObservations(sm_result, sm_data)

(***************************************************************************)
(* C8 (as stated, for process_historical_csv_data): a wide table yields    *)
(* exactly one observation per (row, location column) pair whose cell is   *)
(* present, numeric and strictly positive and whose row date resolves,     *)
(* and no observation for any other pair.                                  *)
(***************************************************************************)
\* the qualifying (row, location column) pairs of a wide table
WidePairs(tb, date_col, loc_cols) ==
  {p \in (DOMAIN tb.rows) \X loc_cols :
     /\ tb.rows[p[1]][p[2]].t = "num"
     /\ tb.rows[p[1]][p[2]].v > 0
     /\ to_datetime(tb.rows[p[1]][date_col]).t = "ts"}
\* obs is the observation of pair p
ObsOfPair(tb, date_col, p, obs) ==
  /\ obs["Date"] = to_datetime(tb.rows[p[1]][date_col])
  /\ obs["Route"] = Str(p[2])
  /\ obs["Count"] = tb.rows[p[1]][p[2]]

C8_HistoricalCardinality ==
  (Processed /\ historical_file /\ historical_arg.readable
     /\ HasCol(historical_arg.table, "Date")) =>
    LET tb == historical_arg.table
        pairs == WidePairs(tb, "Date", Range(tb.cols) \ {"Date"})
    IN  /\ Len(historical_data.rows) = Cardinality(pairs)
        /\ \A i \in DOMAIN historical_data.rows :
             \E p \in pairs : ObsOfPair(tb, "Date", p, historical_data.rows[i])


(***************************************************************************)
(* C9 (as stated): the wide table with the one row Year=2022, Month=Jan,   *)
(* 'Burrard Bridge'=1000, 'Hornby Street'=0 gives, through                 *)
(* excel_reader.process_bike_data and process_wide_format, exactly the     *)
(* one observation {2022-01-15, 2022, 'Jan', 'Burrard Bridge', 1000}.      *)
(***************************************************************************)
ScenarioTable ==
  DF(WideCols, << MkRow(WideCols, <<Num(2022), Str("Jan"), Num(1000), Num(0)>>) >>)

C9_WideScenario ==
  (xr_pc = "done" /\ xr_df = ScenarioTable) =>
    /\ ~xr_result.isNone
    /\ Len(xr_result.rows) = 1
    /\ xr_result.rows[1]["Date"] = TS(20220115)
    /\ xr_result.rows[1]["Year"] \in {Num(2022), Str("2022")}
    /\ xr_result.rows[1]["Month"] = Str("Jan")
    /\ xr_result.rows[1]["Route"] = Str("Burrard Bridge")
    /\ xr_result.rows[1]["Count"] = Num(1000)

(***************************************************************************)
(* C10 (as stated, for the paths of excel_reader): every observation of    *)
(* a dataset a processing path returns has a Date that is a real calendar  *)
(* date; no row is returned with a null or unresolved Date.                *)
(***************************************************************************)
RealDate(c) == c.t = "ts" \/ (c.t = "str" /\ ParsedDate(c.s) # 0)

C10_NoNullDate ==
  (xr_pc = "done" /\ ~xr_result.isNone) =>
    \A i \in DOMAIN xr_result.rows :
      "Date" \in DOMAIN xr_result.rows[i] => RealDate(xr_result.rows[i]["Date"])

(***************************************************************************)
(* C11 (as stated): process_recent_csv_data emits exactly one observation  *)
(* for each input row with a resolvable date and a numeric, non-negative   *)
(* count, in the order of the rows, and nothing for any other row; rows    *)
(* sharing a (Date, Route) key are not merged.                             *)
(***************************************************************************)
\* the path under study has returned
PathDone(path) == sm_pc # "process" /\ sm_source.path = path

\* a count written with thousands separators
ThousandsText(c) == c.t = "str" /\ c.s \in {"1,250"}
\* a count cell that is a number, plainly or with separators, and not negative
NumericNonNegative(c) == (c.t = "num" /\ c.v >= 0) \/ ThousandsText(c)

C11_LongOneToOne ==
  (PathDone("recent") /\ sm_source.table.cols = RecentStdCols) =>
    LET Qualifies(r) == /\ to_datetime(r["date"]).t = "ts"
                        /\ NumericNonNegative(r["Volume"])
        q == SelectSeq(sm_source.table.rows, Qualifies)
    IN  /\ ~sm_data.isNone
        /\ Len(sm_data.rows) = Len(q)
        /\ \A i \in DOMAIN q :
             /\ sm_data.rows[i]["Date"] = to_datetime(q[i]["date"])
             /\ sm_data.rows[i]["Route"] = q[i]["Location"]

(***************************************************************************)
(* C12 (as stated): process_recent_csv_data turns the row {date            *)
(* '2023-05-10', Location 'Lions Gate', Volume '1,250'} into the           *)
(* observation {2023-05-10, 2023, 'May', 'Lions Gate', 1250}: the count    *)
(* is the number without its thousands separator.                          *)
(***************************************************************************)
ThousandsScenarioTable ==
  DF(RecentStdCols,
     << RecentRow(Str("2023-05-10"), Str("Lions Gate"), Str("1,250")) >>)

C12_ThousandsSeparator ==
  (PathDone("recent") /\ sm_source.table = ThousandsScenarioTable) =>
    /\ ~sm_data.isNone
    /\ sm_data.rows = << [Date  |-> TS(20230510), Year |-> Num(2023),
                          Month |-> Str("May"), Route |-> Str("Lions Gate"),
                          Count |-> Num(1250)] >>

(***************************************************************************)
(* C13 (as stated, for the two paths of process_excel.py): an observation  *)
(* whose count cell is the placeholder '*' is dropped, emitted neither     *)
(* with Count 0 nor with the '*' value, and the other observations of the  *)
(* table are still emitted: the path returns what it returns for the       *)
(* same table with the '*' cells empty.                                    *)
(***************************************************************************)
\* the table with every '*' cell empty
WithoutPlaceholders(tb) ==
  DF(tb.cols,
     [i \in DOMAIN tb.rows |->
        [c \in DOMAIN tb.rows[i] |->
           IF tb.rows[i][c] = Str("*") THEN NaN ELSE tb.rows[i][c]]])

C13_PlaceholderDropped ==
  /\ PathDone("recent") =>
       sm_data = process_recent_csv_data(WithoutPlaceholders(sm_source.table))
  /\ PathDone("historical") =>
       sm_data = process_historical_csv_data(WithoutPlaceholders(sm_source.table))

(***************************************************************************)
(* C14 (as stated, for the paths of excel_reader): every dataset with      *)
(* observations that process_bike_data returns, through                    *)
(* process_wide_format or through process_unknown_format (long-form        *)
(* branch, best-guess branch and final fall-through), has exactly the      *)
(* five columns Date, Year, Month, Route, Count and no others.             *)
(***************************************************************************)
C14_CanonicalSchema ==
  (xr_pc = "done" /\ ~xr_result.isNone /\ Len(xr_result.rows) > 0) =>
    /\ Range(xr_result.cols) = Range(Canon)
    /\ Len(xr_result.cols) = Len(Canon)

(***************************************************************************)
(* C15 (as stated, for the two paths of process_excel.py): every           *)
(* observation of a dataset a processing path returns has a Count that is  *)
(* a number and is not negative; negative cells of a wide table and text   *)
(* cells of a long table do not reach the output.                          *)
(***************************************************************************)
C15_CountValid ==
  (sm_pc # "process" /\ ~sm_data.isNone) =>
    \A i \in DOMAIN sm_data.rows :
      sm_data.rows[i]["Count"].t = "num" /\ sm_data.rows[i]["Count"].v >= 0

(***************************************************************************)
(* C16 (as stated): in process_excel.main, if reading or processing one    *)
(* source fails while the other source is read and processed into a        *)
(* dataset, the run succeeds (status 0) and the written output is exactly  *)
(* the other source's dataset.                                             *)
(***************************************************************************)
\* a source main went on with, whose reading or processing gave None
RecentFailed == recent_file /\ recent_data.isNone
HistoricalFailed == historical_file /\ historical_data.isNone

C16_SingleSourceDegrade ==
  pc = "done" =>
    /\ (RecentFailed /\ ~historical_data.isNone) =>
         /\ exit_status = "0"
         /\ output_file = [written |-> TRUE, df |-> historical_data]
    /\ (HistoricalFailed /\ ~recent_data.isNone) =>
         /\ exit_status = "0"
         /\ output_file = [written |-> TRUE, df |-> recent_data]

(***************************************************************************)
(* C17 (as stated): when runner.main gets no data_path, or a data_path     *)
(* naming no file, or a file of undetermined type, the run goes on to      *)
(* create the visualization (from sample data) and does not end            *)
(* abnormally.                                                             *)
(***************************************************************************)
C17_SampleFallback ==
  (rn_pc = "done"
     /\ (~rn_args.given \/ ~rn_args.exists \/ rn_file_type = "None")) =>
    /\ rn_status # "exception"
    /\ rn_animation # "no"

(***************************************************************************)
(* C18 (as stated): when a sheet carries an explicit parseable date        *)
(* column next to year and month columns, the Date of every row that       *)
(* process_wide_format or process_unknown_format returns is taken from     *)
(* the explicit date column, not synthesized from year and month.          *)
(***************************************************************************)
\* the sheet has a Date, a Year and a Month column and every Date parses
ExplicitAndYearMonth(df) ==
  /\ ~df.isNone
  /\ \A c \in {"Date", "Year", "Month"} : HasCol(df, c)
  /\ \A i \in DOMAIN df.rows : to_datetime(df.rows[i]["Date"]).t = "ts"

C18_ExplicitDateFirst ==
  (xr_pc = "done" /\ ExplicitAndYearMonth(xr_df) /\ ~xr_result.isNone) =>
    \A i \in DOMAIN xr_result.rows :
      \E j \in DOMAIN xr_df.rows :
        to_datetime(xr_result.rows[i]["Date"]) = to_datetime(xr_df.rows[j]["Date"])

(***************************************************************************)
(* C19 (as stated, for the paths of excel_reader): for every row of a      *)
(* sheet with a year column and a month column, the month a number 1..12   *)
(* or a three-letter abbreviation in any letter case, the synthesized      *)
(* Date is day 15 of that month and year: process_unknown_format returns   *)
(* the row with that Date, process_wide_format an observation with that    *)
(* Date for every positive cell of the row.                                *)
(***************************************************************************)
\* the month a cell names: 1..12, or 0 when it names none
MonthOf(c) ==
  IF c.t = "num" /\ c.v \in 1..12 THEN c.v
  ELSE IF c.t = "str" /\ month_map(Lower3(c.s)).t = "num"
       THEN month_map(Lower3(c.s)).v
  ELSE 0
\* day 15 of the month and year of the row
MidMonth(r) == TS(r["Year"].v * 10000 + MonthOf(r["Month"]) * 100 + 15)
YearAndMonthOnly(df) ==
  ~df.isNone /\ HasCol(df, "Year") /\ HasCol(df, "Month") /\ ~HasCol(df, "Date")

C19_YearMonthSynthesis ==
  (xr_pc = "done" /\ YearAndMonthOnly(xr_df)) =>
    \A j \in DOMAIN xr_df.rows :
      (xr_df.rows[j]["Year"].t = "num" /\ MonthOf(xr_df.rows[j]["Month"]) # 0) =>
        IF is_wide_format(xr_df)
        THEN \A c \in Range(reader_route_cols(xr_df)) :
               (xr_df.rows[j][c].t = "num" /\ xr_df.rows[j][c].v > 0) =>
                 \E i \in DOMAIN xr_result.rows :
                   /\ xr_result.rows[i]["Route"] = Str(c)
                   /\ xr_result.rows[i]["Date"] = MidMonth(xr_df.rows[j])
        ELSE /\ j \in DOMAIN xr_result.rows
             /\ xr_result.rows[j]["Date"] = MidMonth(xr_df.rows[j])

(***************************************************************************)
(* C20 (as stated, for process_bike_data and process_wide_format): a       *)
(* column whose name matches both a date keyword (date, time, year,        *)
(* month) and a location keyword is classified as date and is not used as  *)
(* a location/route column: no observation has it as its Route.            *)
(***************************************************************************)
DateNamed(c) == KeywordsIn(c) \cap {"date", "time", "year", "month"} # {}

C20_DateBeforeLocation ==
  (xr_pc = "done" /\ ~xr_df.isNone /\ is_wide_format(xr_df) /\ ~xr_result.isNone) =>
    \A i \in DOMAIN xr_result.rows :
      \A c \in Range(xr_df.cols) :
        DateNamed(c) => xr_result.rows[i]["Route"] # Str(c)

(***************************************************************************)
(* C21 (as stated): process_bike_data takes the wide path exactly when at  *)
(* least two columns are classified as location, and takes the long path   *)
(* only when at most one column is a location and at least one column is   *)
(* a count; a table meeting neither condition is not treated as long.      *)
(***************************************************************************)
\* the columns each function classifies as location, and the count columns
WideLocations(df) == Range(reader_route_cols(df))
LongLocations(df) == Range(ColsWith(df.cols, {"route", "location", "path"}))
CountColumns(df) ==
  {c \in Range(ColsWith(df.cols, {"count", "volume", "trips"})) : IsNumericCol(df, c)}

C21_ShapeDecision ==
  (xr_pc = "done" /\ ~xr_df.isNone) =>
    /\ xr_path = "wide" <=> Cardinality(WideLocations(xr_df)) >= 2
    /\ xr_path = "long" =>
         /\ Cardinality(WideLocations(xr_df)) <= 1
         /\ Cardinality(LongLocations(xr_df)) <= 1
         /\ CountColumns(xr_df) # {}

(***************************************************************************)
(* C22 (as stated): when a sheet matches neither the wide nor the long     *)
(* criteria and the best-effort pass of process_unknown_format fails as    *)
(* well, the path returns no data: not the raw sheet as if it were a       *)
(* result, and excel_reader.main saves nothing (stated for sheets that     *)
(* have rows).                                                             *)
(***************************************************************************)
C22_UnresolvedShapeNoData ==
  (xr_pc = "done" /\ xr_path = "unrecognized" /\ Len(xr_df.rows) > 0) =>
    /\ xr_result.isNone \/ Len(xr_result.rows) = 0
    /\ ~xr_saved

(***************************************************************************)
(* C23 (as stated, for process_historical_csv_data): a count cell that     *)
(* cannot be coerced to a non-negative number costs only its own           *)
(* observation: every cell of the table that holds a positive number, in   *)
(* a row whose date resolves, is still emitted, and a single non-numeric   *)
(* cell does not make the function return no dataset.                      *)
(***************************************************************************)
C23_InvalidCountLocal ==
  (PathDone("historical") /\ sm_source.table.cols = HistStdCols) =>
    \A j \in DOMAIN sm_source.table.rows : \A c \in {"X", "Y"} :
      LET r == sm_source.table.rows[j] IN
      (r[c].t = "num" /\ r[c].v > 0 /\ to_datetime(r["Date"]).t = "ts") =>
        /\ ~sm_data.isNone
        /\ \E i \in DOMAIN sm_data.rows :
             /\ sm_data.rows[i]["Date"] = to_datetime(r["Date"])
             /\ sm_data.rows[i]["Route"] = Str(c)
             /\ sm_data.rows[i]["Count"] = r[c]

\* C24: when the date of one row cannot be resolved, that row alone is
\* dropped and the rows of the same table with resolvable dates are still
\* processed; no path fails the whole table because of one such row.  Here
\* for pdfex: on a table with a text Year column and a Month column the
\* run does not end in an exception, and every cell that is not missing of
\* a row whose month label is a month is an observation of the long table
PdfYearMonthText(df) ==
  /\ ~df.isNone
  /\ HasCol(df, "Year") /\ HasCol(df, "Month")
  /\ \A i \in DOMAIN df.rows : df.rows[i]["Year"].t = "str"
C24_UnresolvedDateLocal ==
  (px_pc # "process" /\ PdfYearMonthText(px_raw)) =>
    /\ px_status # "exception"
    /\ px_pc = "done" =>
         \A i \in DOMAIN px_raw.rows : \A c \in {"Burrard Bridge", "Hornby Street"} :
           LET r == px_raw.rows[i] IN
           (notna(pdf_month_map(r["Month"])) /\ r[c].t = "num") =>
             \E j \in DOMAIN px_long.rows :
               /\ px_long.rows[j]["Route"] = Str(c)
               /\ px_long.rows[j]["Year"] = r["Year"]
               /\ px_long.rows[j]["Month"] = r["Month"]
               /\ px_long.rows[j]["Count"] = r[c]

\* C25: every drop is reported: the number of rows the run reports as
\* dropped equals the number of input rows that did not reach the output.
\* Here for process_recent_csv_data: the rows of the table that are not in
\* the frame returned are as many as the warnings of the run count
C25_EveryDropReported ==
  (PathDone("recent") /\ ~sm_data.isNone) =>
    Len(sm_source.table.rows) - Len(sm_data.rows) = sm_reported

\* C26: every observation of every dataset a processing path returns has
\* a non-empty Route; a long-table row whose location is missing or empty
\* text is dropped.  Here for the long table of excel_reader: no row of a
\* returned frame with a Route column has a missing or empty Route
C26_NonEmptyRoute ==
  (xr_pc = "done" /\ ~xr_result.isNone /\ HasCol(xr_result, "Route")) =>
    \A i \in DOMAIN xr_result.rows :
      /\ notna(xr_result.rows[i]["Route"])
      /\ xr_result.rows[i]["Route"] # Str("")

\* the (Date, Route) keys of a frame
Keys(df) == {<<df.rows[i]["Date"], df.rows[i]["Route"]>> : i \in DOMAIN df.rows}

\* C27: when both inputs of combine_bike_data are present with the five
\* canonical columns, the (Date, Route) keys of the result are the union
\* of the keys of the two inputs, and every observation of the result is
\* an observation of one of the inputs
C27_KeySetPreserved ==
  (Merged /\ BothPresent /\ HasCanon(recent_data) /\ HasCanon(historical_data)) =>
    /\ ~combined_data.isNone
    /\ Keys(combined_data) = Keys(recent_data) \cup Keys(historical_data)
    /\ Range(combined_data.rows)
         \subseteq Range(recent_data.rows) \cup Range(historical_data.rows)

\* both inputs hold one key in common and each a key of its own
C27_Witness ==
  /\ Merged /\ BothPresent /\ HasCanon(recent_data) /\ HasCanon(historical_data)
  /\ Keys(recent_data) \cap Keys(historical_data) # {}
  /\ Keys(recent_data) \ Keys(historical_data) # {}
  /\ Keys(historical_data) \ Keys(recent_data) # {}
  /\ Cardinality(Keys(combined_data)) >= 3

\* C28: in process_historical_csv_data, for a table whose date column is
\* found by keyword and not named exactly 'Date', the Route of every
\* emitted observation is the name of a column other than the one the
\* timestamps were read from
C28_RouteNotDateColumn ==
  (PathDone("historical") /\ ~sm_source.table.isNone
     /\ ~HasCol(sm_source.table, "Date") /\ ~sm_data.isNone) =>
    \A i \in DOMAIN sm_data.rows :
      \A c \in Range(sm_source.table.cols) :
        {"date", "time"} \cap KeywordsIn(c) # {} => sm_data.rows[i]["Route"] # Str(c)

\* C29: in create_visualization.main the visualization stage is started
\* only after the processing stage reported success, or after processing
\* was skipped and the combined CSV exists; the run returns 0 only if the
\* visualization reported success, and returns 1 without starting a stage
\* when neither input file is found
C29_StageOrdering ==
  /\ cv_stage.visualization # "none" =>
       \/ cv_stage.processing = "ok"
       \/ cv_stage.processing = "skipped" /\ cv_env.skip_processing /\ cv_files.combined
  /\ cv_exit = "0" => cv_stage.visualization = "ok"
  /\ (cv_pc = "done" /\ ~cv_env.recent_exists /\ ~cv_env.historical_exists) =>
       /\ cv_exit = "1"
       /\ cv_runs = <<>>
       /\ cv_stage = [processing |-> "none", direct |-> "none", visualization |-> "none"]

\* a run that went through the fallback script to a successful visualization
C29_Witness ==
  /\ cv_pc = "done" /\ cv_exit = "0"
  /\ cv_stage.processing = "ok" /\ cv_stage.visualization = "ok"
  /\ Len(cv_runs) = 2

\* process_csv_files has returned
ProcessingReturned == cv_stage.processing \in {"ok", "failed"}
\* process_excel.py only after process_csv.py returned non-zero, and each
\* script at most once
FallbackOrder ==
  /\ \A i \in DOMAIN cv_runs :
       cv_runs[i].script = "process_excel.py" =>
         /\ i > 1
         /\ cv_runs[i-1].script = "process_csv.py"
         /\ cv_runs[i-1].rc # 0
  /\ \A i, j \in DOMAIN cv_runs : cv_runs[i].script = cv_runs[j].script => i = j
ScriptSucceeded == \E i \in DOMAIN cv_runs : cv_runs[i].rc = 0

\* C30 (as stated): process_excel.py is invoked only after process_csv.py
\* has run and returned a non-zero exit code, each script is invoked at
\* most once per call, and process_csv_files returns True exactly when one
\* of the invoked scripts returned exit code 0
C30_TrueIffScriptSucceeded ==
  /\ FallbackOrder
  /\ ProcessingReturned => (cv_stage.processing = "ok" <=> ScriptSucceeded)

\* C30 (amended): ... and process_csv_files returns True exactly when one
\* of the invoked scripts returned exit code 0, or when launching a script
\* raised FileNotFoundError and the recent file was then read and saved
\* directly as the combined CSV
C30_TrueIffScriptOrDirect ==
  /\ FallbackOrder
  /\ ProcessingReturned =>
       (cv_stage.processing = "ok" <=> (ScriptSucceeded \/ cv_stage.direct = "saved"))

\* process_csv.py failed, launching process_excel.py raised, and the recent
\* file was saved directly
C30_Witness ==
  /\ cv_stage.processing = "ok"
  /\ cv_stage.direct = "saved"
  /\ cv_runs = <<[script |-> "process_csv.py", rc |-> 1]>>
====
